---------------------------- MODULE Spec2Model ----------------------------
(* Batch orchestration of image_converter: BatchProcessor (run_conversion,  *)
(* process_single_file, process_pdf, process_image), its PDF and directory  *)
(* collaborators, the progress channel and its consumer                     *)
(* (ImageConverterApp::update); the encoders behind compress_and_save       *)
(* (turbo_encoder, webp_encoder) with the shared MemoryPool and the PNG     *)
(* size estimate; the folder listing and the output paths the batch writes  *)
(* to.                                                                      *)
EXTENDS Integers, Sequences, FiniteSets, TLC

(* ------------------------------ bounds ---------------------------------- *)
MaxFiles == 2
MaxPages == 2
MaxUnits == 2

(* at most this many snapshots are drained per UI tick *)
MaxDrain == 10

(* ------------------------------ inputs ---------------------------------- *)
Formats == {"Jpeg", "PngCompressed", "PngOriginal", "WebPLossy", "WebPLossless"}
Modes == {"SingleFile", "Folder"}

(* A file on disk: its extension class, and for a PDF whether pdfium can   *)
(* load it and how many pages the document has.                             *)
ImageFile == [pdf |-> FALSE, loadable |-> FALSE, pages |-> 0]
PdfFiles == {[pdf |-> TRUE, loadable |-> FALSE, pages |-> 0]}
            \cup {[pdf |-> TRUE, loadable |-> TRUE, pages |-> n] : n \in 0..MaxPages}
FileKinds == {ImageFile} \cup PdfFiles

RECURSIVE SeqsUpTo(_, _)
SeqsUpTo(S, n) ==
    IF n = 0 THEN {<<>>}
    ELSE LET shorter == SeqsUpTo(S, n - 1)
         IN  shorter \cup {Append(s, x) : s \in {t \in shorter : Len(t) = n - 1}, x \in S}

(* ascending sequence of the elements of a set of page numbers *)
RECURSIVE Ascending(_)
Ascending(S) ==
    IF S = {} THEN <<>>
    ELSE LET m == CHOOSE x \in S : \A y \in S : y <= x
         IN  Append(Ascending(S \ {m}), m)

Min(a, b) == IF a < b THEN a ELSE b

(* ------------------------------ state ----------------------------------- *)
VARIABLES
    mode,              \* ProcessingMode of the run
    output_format,     \* OutputFormat of the run
    is_dir,            \* input_path.is_dir()
    fs,                \* the files under input_path (Folder) or the file itself (SingleFile)
    pc,                \* position of run_conversion / process_files
    files_to_process,  \* run_conversion local
    total_tasks,       \* run_conversion local
    processed_tasks,   \* AtomicUsize
    failed_tasks,      \* AtomicUsize
    task,              \* per file: position of process_single_file and its locals
    sent,              \* every progress_sender.send call of the run, in order
    chan,              \* the snapshots placed on the channel, in order
    rx_alive,          \* the receiver has not been dropped
    rcv,               \* number of snapshots the consumer has taken off the channel
    progress,          \* ImageConverterApp.progress
    is_processing,     \* ImageConverterApp.is_processing
    is_error,          \* ImageConverterApp.is_error
    call,              \* per caller: position and locals of one encode call
    pool,              \* MEMORY_POOL.buffers
    codec,             \* what the codecs have produced so far, per (codec, setting, size)
    folder,            \* the files under the input folder
    listing,           \* the source paths of a folder, as WalkDir yields them
    outputs,           \* the output files written, each with the unit it holds
    est                \* the calls of estimate_png_size made so far, with their outcomes

vars == <<mode, output_format, is_dir, fs, pc, files_to_process, total_tasks,
          processed_tasks, failed_tasks, task, sent, chan, rx_alive, rcv,
          progress, is_processing, is_error, call, pool, codec, folder,
          listing, outputs, est>>

encVars == <<call, pool, codec>>
pathVars == <<folder, listing, outputs>>
inputVars == <<mode, output_format, is_dir, fs, encVars, pathVars, est>>
appVars == <<rcv, progress, is_processing, is_error>>

(* ------------------------- ProgressUpdate ------------------------------- *)
NoFile == <<0, 0>>
Calculating == <<-1, 0>>

(* ProgressUpdate::default() *)
DefaultUpdate ==
    [processed |-> 0, failed |-> 0, total |-> 0, current_file |-> NoFile,
     is_complete |-> FALSE, error_message |-> FALSE]

(* progress_sender.send(msg), its result ignored (let _ =) *)
Send(msg) ==
    /\ sent' = Append(sent, msg)
    /\ chan' = IF rx_alive THEN Append(chan, msg) ELSE chan

(* --------------------------- collaborators ------------------------------ *)
get_files_in_directory ==
    IF is_dir THEN [ok |-> TRUE, files |-> fs] ELSE [ok |-> FALSE, files |-> <<>>]

get_pdf_page_count(f) ==
    IF f.loadable THEN [ok |-> TRUE, count |-> f.pages] ELSE [ok |-> FALSE, count |-> 0]

(* convert_pdf_to_images: rendered is the set of pages whose render succeeds *)
convert_pdf_to_images(f, rendered) ==
    IF f.loadable /\ rendered # {}
    THEN [ok |-> TRUE, images |-> Ascending(rendered)]
    ELSE [ok |-> FALSE, images |-> <<>>]

(* mutant: a PDF whose page count is unknown contributes nothing *)
PreScanUnits_ErrZero(f) ==
    IF f.pdf
    THEN LET r == get_pdf_page_count(f) IN IF r.ok THEN r.count ELSE 0
    ELSE 1

(* mutant: the pre-scan counts every file as one unit *)
PreScanUnits_OnePerFile(f) == 1

(* units one file contributes to the pre-scan total *)
PreScanUnits(f) ==
    IF f.pdf
    THEN LET r == get_pdf_page_count(f) IN IF r.ok THEN r.count ELSE 1
    ELSE 1

RECURSIVE SumUnits(_)
SumUnits(files) ==
    IF files = <<>> THEN 0 ELSE PreScanUnits(Head(files)) + SumUnits(Tail(files))

(* units added to failed when process_pdf / process_image returns Err *)
TasksInFile(f) ==
    IF f.pdf
    THEN LET r == get_pdf_page_count(f) IN IF r.ok THEN r.count ELSE 1
    ELSE 1

(* ------------------------------ encoders -------------------------------- *)
(* bounds of the encoder specifications *)
MaxQuality == 100
MaxPooled == 3
MaxAttempts == 24
MaxEstimates == 2

Callers == 1..2

(* an image: its pixel dimensions (its content is fixed for a run) *)
SmallImages == {[w |-> 36, h |-> 20], [w |-> 8, h |-> 40], [w |-> 60, h |-> 50]}
MediumImages == {[w |-> 256, h |-> 256]}
LargeImages == {[w |-> 800, h |-> 700]}
Images == SmallImages \cup LargeImages

TargetKbs == {0, 1, 2, 3, 48, 49, 196}
NoTarget == -1
Targets == {NoTarget, 0, 500, 2048}
PngTargets == {0, 5, 29, 1024, 2000, 2536, 4000, 6000}
WebpQualities == {0, 10, 11, 50, 75, 85, 100}

(* Vec<u8>: the allocation it owns (id), its capacity and contents; the     *)
(* contents are the encodings written into it, each [codec, q, n, w, h,    *)
(* len]. The encodings of the model are shorter than any capacity, so no    *)
(* buffer grows or reallocates. An allocation is named by the caller that   *)
(* made it (0 for an earlier encode) and its address.                       *)
NoBuf == [id |-> <<0, 0>>, cap |-> 0, data |-> <<>>]

RECURSIVE BufLen(_)
BufLen(data) ==
    IF data = <<>> THEN 0 ELSE Head(data).len + BufLen(Tail(data))

(* mutant: clear leaves the contents in place *)
Cleared_Noop(buf) == buf

(* Vec::clear: the contents go, the capacity stays *)
Cleared(buf) == [buf EXCEPT !.data = <<>>]

RECURSIVE PowerOfTwoFrom(_, _)
PowerOfTwoFrom(p, n) == IF p >= n THEN p ELSE PowerOfTwoFrom(2 * p, n)

(* usize::next_power_of_two *)
next_power_of_two(n) == PowerOfTwoFrom(1, n)

(* mutant: the pool keeps the buffer it hands out *)
get_buffer_KeepsPooled(min_size, fresh) ==
    LET fits == {i \in 1..Len(pool) : pool[i].cap >= min_size}
    IN  IF fits # {}
        THEN LET i == CHOOSE j \in fits : \A k \in fits : j <= k
             IN  [buf |-> Cleared(pool[i]), pool |-> pool]
        ELSE LET p == next_power_of_two(min_size)
             IN  [buf |-> [id |-> fresh,
                           cap |-> IF p > 1024 * 1024 THEN p ELSE 1024 * 1024,
                           data |-> <<>>],
                  pool |-> pool]

(* MemoryPool::get_buffer: the buffer handed out and the pool left behind; *)
(* fresh names the allocation of Vec::with_capacity                         *)
get_buffer(min_size, fresh) ==
    LET fits == {i \in 1..Len(pool) : pool[i].cap >= min_size}
    IN  IF fits # {}
        THEN LET i == CHOOSE j \in fits : \A k \in fits : j <= k
                 last == Len(pool)
                 moved == IF i = last THEN pool ELSE [pool EXCEPT ![i] = pool[last]]
             IN  [buf |-> Cleared(pool[i]), pool |-> SubSeq(moved, 1, last - 1)]
        ELSE LET p == next_power_of_two(min_size)
             IN  [buf |-> [id |-> fresh,
                           cap |-> IF p > 1024 * 1024 THEN p ELSE 1024 * 1024,
                           data |-> <<>>],
                  pool |-> pool]

(* mutant: the pool keeps every buffer returned to it *)
return_buffer_Unbounded(bs, buffer) ==
    LET b == Cleared(buffer)
    IN  IF b.cap > 1024 THEN Append(bs, b) ELSE bs

(* MemoryPool::return_buffer applied to pool contents bs *)
return_buffer(bs, buffer) ==
    LET b == Cleared(buffer)
    IN  IF Len(bs) < 4 /\ b.cap > 1024 THEN Append(bs, b) ELSE bs

(* mutant: the retry keeps the quality *)
JpegDecay_Unchanged(quality) == quality

(* mutant: the retry halves the quality *)
JpegDecay_Half(quality) == quality \div 2

(* (quality as f32 * 0.8) as u8 *)
JpegDecay(quality) == (quality * 4) \div 5

(* mutant: the lossy search never retries *)
WebpAboveFloor_Never(q0, n) == FALSE

(* the f32 quality q0 * 0.8^n of encode_webp_lossy is > 10.0 *)
WebpAboveFloor(q0, n) == q0 * 4^n > 10 * 5^n

(* turbo_encode_jpeg_adaptive: initial_quality *)
JpegInitialQuality(target_bytes) ==
    IF target_bytes < 50000 THEN 40
    ELSE IF target_bytes < 200000 THEN 60 ELSE 80

(* encode_webp_smart: initial_quality *)
WebpInitialQuality(target_size_bytes) ==
    IF target_size_bytes < 50000 THEN 50
    ELSE IF target_size_bytes < 200000 THEN 75 ELSE 85

(* u32 multiplication: the product does not fit 32 bits. The operands are   *)
(* taken in 16-bit halves, whose products fit the integers of the checker   *)
(* for operands whose low halves are below 2^15.                            *)
U32Overflows(a, b) ==
    LET ah == a \div 65536
        al == a % 65536
        bh == b \div 65536
        bl == b % 65536
    IN  ah * bh > 0 \/ ah * bl + al * bh + (al * bl) \div 65536 >= 65536

(* the product modulo 2^32, which a release build computes *)
wrapping_mul(a, b) ==
    LET ah == a \div 65536
        al == a % 65536
        bh == b \div 65536
        bl == b % 65536
        high == (ah * bl + al * bh + (al * bl) \div 65536) % 65536
    IN  high * 65536 + ((al * bl) % 65536)

(* (base_size as f32 * compression_ratio) as usize for base_size < 2^24,    *)
(* which as f32 is exact: compression_ratio is the f32 nearest 0.7,         *)
(* 11744051 / 2^24; the product is formed exactly as whole + part / 2^24    *)
(* from 12-bit halves, rounded to the 24 significant bits of an f32 (ties   *)
(* to even) and truncated.                                                  *)
ScaledByRatio(base_size) ==
    LET bh == base_size \div 4096
        bl == base_size % 4096
        ch == 11744051 \div 4096
        cl == 11744051 % 4096
        mid == bh * cl + bl * ch
        rest == (mid % 4096) * 4096 + bl * cl
        whole == bh * ch + mid \div 4096 + rest \div (2^24)
        part == rest % (2^24)
    IN  IF whole = 0 THEN 0
        ELSE LET k == CHOOSE j \in 0..23 : whole >= 2^(23 - j) /\ (j = 0 \/ whole < 2^(24 - j))
             IN  IF k = 0
                 THEN IF part > 2^23 \/ (part = 2^23 /\ whole % 2 = 1)
                      THEN whole + 1 ELSE whole
                 ELSE IF part >= 2^24 - 2^(23 - k) THEN whole + 1 ELSE whole

(* estimate_png_size as a release build computes it (width * height wraps); *)
(* for a product whose triple is below 2^24                                 *)
estimate_png_size(width, height) ==
    LET pixels == wrapping_mul(width, height)
        base_size == pixels * 3
    IN  ScaledByRatio(base_size) + 1024

(* mutant: no scale is too small *)
ScaleTooSmall_Never(target_bytes, quick_size) == FALSE

(* scale_factor = sqrt(target_bytes / quick_size) * 0.95 is below 0.1 *)
ScaleTooSmall(target_bytes, quick_size) == 361 * target_bytes < 4 * quick_size

(* mutant: the floor of a resized side is 64 *)
ScaledSide_Floor64(side, target_bytes, quick_size) ==
    LET r == IF 361 * target_bytes >= 400 * quick_size
             THEN side
             ELSE LET x == side * side * target_bytes
                      b == 361 * (x \div quick_size)
                           + (361 * (x % quick_size)) \div quick_size
                  IN  CHOOSE k \in 0..side :
                          /\ k > 0 => (2 * k - 1) * (2 * k - 1) * 100 <= b
                          /\ (2 * k + 1) * (2 * k + 1) * 100 > b
    IN  IF r > 64 THEN r ELSE 64

(* (side as f32 * scale_factor).round().max(32.0) as u32, the scale factor  *)
(* clamped by .min(1.0)                                                     *)
ScaledSide(side, target_bytes, quick_size) ==
    LET r == IF 361 * target_bytes >= 400 * quick_size
             THEN side
             ELSE LET x == side * side * target_bytes
                      b == 361 * (x \div quick_size)
                           + (361 * (x % quick_size)) \div quick_size
                  IN  CHOOSE k \in 0..side :
                          /\ k > 0 => (2 * k - 1) * (2 * k - 1) * 100 <= b
                          /\ (2 * k + 1) * (2 * k + 1) * 100 > b
    IN  IF r > 32 THEN r ELSE 32

(* what one encode can produce for a call with the given target: the byte  *)
(* length of the output (never 0) relative to the target, or an encoder    *)
(* error                                                                    *)
EncodeErr == -1
SizeBase(target) == IF target = NoTarget THEN 0 ELSE target
FitSizes(target) == IF SizeBase(target) > 0 THEN {SizeBase(target)} ELSE {}
JpegOutcomes(target) == {EncodeErr, SizeBase(target) + 1} \cup FitSizes(target)
WebpOutcomes(target) == {(SizeBase(target) * 12) \div 10 + 1} \cup FitSizes(target)
LosslessOutcomes(target) ==
    {SizeBase(target) + 1, (SizeBase(target) * 12) \div 10 + 1} \cup FitSizes(target)
PngOutcomes(target) == {EncodeErr, SizeBase(target) + 1} \cup FitSizes(target)

(* the codecs are deterministic: a setting that was encoded before gives   *)
(* the same bytes again                                                     *)
Key(kind, q, n, w, h) == <<kind, q, n, w, h>>
Known(k) == \E e \in codec : e.k = k
Encode(k, outcomes) ==
    IF Known(k) THEN {(CHOOSE e \in codec : e.k = k).v} ELSE outcomes
Learn(k, v) == codec \cup {[k |-> k, v |-> v]}
Token(k, v) == [codec |-> k[1], q |-> k[2], n |-> k[3], w |-> k[4], h |-> k[5], len |-> v]

NoRet == [state |-> "none", data |-> <<>>]
Ok(data) == [state |-> "ok", data |-> data]
Err == [state |-> "err", data |-> <<>>]

IdleCall ==
    [entry |-> "idle", format |-> "Jpeg", image |-> [w |-> 0, h |-> 0],
     target |-> NoTarget, prefer_quality |-> FALSE, pc |-> "done",
     quality |-> 0, decays |-> 0, attempts |-> 0, passes |-> 0,
     buf |-> NoBuf, lossy |-> <<>>, dims |-> [w |-> 0, h |-> 0],
     resized |-> FALSE, ret |-> NoRet, wrote |-> FALSE, written |-> <<>>,
     unit |-> "none"]

(* mutant: PngOriginal is encoded to the target like PngCompressed *)
CompressAndSave_OriginalToTarget(image, target_kb, format) ==
    LET target_bytes == target_kb * 1024
    IN  [IdleCall EXCEPT
            !.entry = "compress_and_save", !.format = format, !.image = image,
            !.target = target_bytes, !.dims = image,
            !.quality = CASE format = "Jpeg" -> JpegInitialQuality(target_bytes)
                          [] format = "WebPLossy" -> WebpInitialQuality(target_bytes)
                          [] OTHER -> 0,
            !.pc = CASE format = "Jpeg" -> "jpeg"
                     [] format = "PngCompressed" -> "png"
                     [] format = "PngOriginal" -> "png"
                     [] format = "WebPLossy" -> "webp"
                     [] format = "WebPLossless" -> "lossless"]

(* compress_and_save lines 16-39: target_bytes and the encoder chosen by    *)
(* the format                                                              *)
CompressAndSave(image, target_kb, format) ==
    LET target_bytes == target_kb * 1024
    IN  [IdleCall EXCEPT
            !.entry = "compress_and_save", !.format = format, !.image = image,
            !.target = target_bytes, !.dims = image,
            !.quality = CASE format = "Jpeg" -> JpegInitialQuality(target_bytes)
                          [] format = "WebPLossy" -> WebpInitialQuality(target_bytes)
                          [] OTHER -> 0,
            !.pc = CASE format = "Jpeg" -> "jpeg"
                     [] format = "PngCompressed" -> "png"
                     [] format = "PngOriginal" -> "png_fast"
                     [] format = "WebPLossy" -> "webp"
                     [] format = "WebPLossless" -> "lossless"]

(* direct calls of the public encoders *)
TurboEncodeJpeg(image, quality, target_size_bytes) ==
    [IdleCall EXCEPT !.entry = "turbo_encode_jpeg", !.format = "Jpeg",
                     !.image = image, !.dims = image, !.quality = quality,
                     !.target = target_size_bytes, !.pc = "jpeg"]

EncodeWebpLossy(image, quality, target_size_bytes) ==
    [IdleCall EXCEPT !.entry = "encode_webp_lossy", !.format = "WebPLossy",
                     !.image = image, !.dims = image, !.quality = quality,
                     !.target = target_size_bytes, !.pc = "webp"]

EncodeWebpSmart(image, target_size_bytes, prefer_quality) ==
    [IdleCall EXCEPT !.entry = "encode_webp_smart", !.format = "WebPLossy",
                     !.image = image, !.dims = image,
                     !.quality = WebpInitialQuality(target_size_bytes),
                     !.target = target_size_bytes,
                     !.prefer_quality = prefer_quality, !.pc = "webp"]

TurboEncodePngCompressed(image, target_bytes) ==
    [IdleCall EXCEPT !.entry = "turbo_encode_png_compressed",
                     !.format = "PngCompressed", !.image = image,
                     !.dims = image, !.target = target_bytes, !.pc = "png"]

(* the arguments estimate_png_size is called with: sides of small and of    *)
(* photo-sized bitmaps, and sides whose product passes 2^32                 *)
EstSides == {1, 36, 1001, 1999, 65536, 65537}
EstInputs ==
    {d \in [w : EstSides, h : EstSides] : wrapping_mul(d.w, d.h) * 3 < 2^24}

(* ------------------------------- Init ----------------------------------- *)
NewTask ==
    [pc |-> "todo", images |-> <<>>, idx |-> 0, p |-> 0, f |-> 0,
     attempts |-> 0, ok_units |-> 0, err_units |-> 0, result |-> "none"]

Init ==
    /\ mode \in Modes
    /\ output_format \in Formats
    /\ is_dir \in BOOLEAN
    /\ fs \in SeqsUpTo(FileKinds, MaxFiles)
    /\ SumUnits(fs) <= MaxUnits
    /\ mode = "SingleFile" => Len(fs) = 1 /\ ~is_dir
    /\ (mode = "Folder" /\ ~is_dir) => fs = <<>>
    /\ pc = "start"
    /\ files_to_process = <<>>
    /\ total_tasks = 0
    /\ processed_tasks = 0
    /\ failed_tasks = 0
    /\ task = <<>>
    /\ sent = <<>>
    /\ chan = <<>>
    /\ rx_alive = TRUE
    /\ rcv = 0
    /\ progress = DefaultUpdate
    /\ is_processing = TRUE
    /\ is_error = FALSE
    /\ call = [c \in Callers |-> IdleCall]
    /\ pool = <<>>
    /\ codec = {}
    /\ folder = {}
    /\ listing = <<>>
    /\ outputs = {}
    /\ est = <<>>

(* --------------------------- run_conversion ----------------------------- *)
mainVars == <<pc, files_to_process, total_tasks>>

(* lines 57-71: enumeration, the empty-list exit, the first snapshot *)
Enumerate ==
    /\ pc = "start"
    /\ LET r == IF mode = "SingleFile" THEN [ok |-> TRUE, files |-> fs]
                ELSE get_files_in_directory
       IN  IF ~r.ok
           THEN /\ pc' = "err"
                /\ UNCHANGED <<files_to_process, sent, chan>>
           ELSE /\ files_to_process' = r.files
                /\ IF r.files = <<>>
                   THEN /\ Send([DefaultUpdate EXCEPT !.is_complete = TRUE])
                        /\ pc' = "done"
                   ELSE /\ Send([DefaultUpdate EXCEPT !.current_file = Calculating])
                        /\ pc' = "prescan"
    /\ UNCHANGED <<inputVars, total_tasks, processed_tasks, failed_tasks, task,
                   rx_alive, appVars>>

(* mutant: the pre-scan does not announce the total *)
PreScan_NoAnnounce ==
    /\ pc = "prescan"
    /\ total_tasks' = SumUnits(files_to_process)
    /\ UNCHANGED <<sent, chan>>
    /\ IF total_tasks' = 0
       THEN pc' = "zero" /\ UNCHANGED task
       ELSE /\ pc' = "processing"
            /\ task' = [i \in 1..Len(files_to_process) |-> NewTask]
    /\ processed_tasks' = 0
    /\ failed_tasks' = 0
    /\ UNCHANGED <<inputVars, files_to_process, rx_alive, appVars>>

(* lines 72-97: the pre-scan, the snapshot announcing the total, the counters *)
PreScan ==
    /\ pc = "prescan"
    /\ total_tasks' = SumUnits(files_to_process)
    /\ Send([DefaultUpdate EXCEPT !.total = total_tasks'])
    /\ IF total_tasks' = 0
       THEN pc' = "zero" /\ UNCHANGED task
       ELSE /\ pc' = "processing"
            /\ task' = [i \in 1..Len(files_to_process) |-> NewTask]
    /\ processed_tasks' = 0
    /\ failed_tasks' = 0
    /\ UNCHANGED <<inputVars, files_to_process, rx_alive, appVars>>

(* mutant: a pre-scan total of 0 is reported as an error *)
ZeroTotal_WithError ==
    /\ pc = "zero"
    /\ Send([DefaultUpdate EXCEPT !.is_complete = TRUE, !.error_message = TRUE])
    /\ pc' = "done"
    /\ UNCHANGED <<inputVars, files_to_process, total_tasks, processed_tasks,
                   failed_tasks, task, rx_alive, appVars>>

(* lines 91-94 *)
ZeroTotal ==
    /\ pc = "zero"
    /\ Send([DefaultUpdate EXCEPT !.is_complete = TRUE, !.total = 0])
    /\ pc' = "done"
    /\ UNCHANGED <<inputVars, files_to_process, total_tasks, processed_tasks,
                   failed_tasks, task, rx_alive, appVars>>

(* mutant: PngCompressed is handed to par_iter like the other formats *)
Serial_Never(format) == FALSE

(* lines 101-164: PngCompressed runs the files in a for loop, the other    *)
(* formats hand them to par_iter                                           *)
Serial(format) == format = "PngCompressed"

(* file i may be picked up: par_iter hands out any file not yet taken, the  *)
(* for loop of lines 191-203 only the one after the last finished           *)
CanStart(i) ==
    /\ task[i].pc = "todo"
    /\ Serial(output_format) => \A j \in 1..(i - 1) : task[j].pc = "done"

(* mutant: the final snapshot does not wait for the workers *)
AllDone_NoJoin == TRUE

(* the for loop or par_iter().for_each has returned *)
AllDone == \A i \in DOMAIN task : task[i].pc = "done"

(* mutant: per-unit failures are escalated to a batch-level error *)
Final_ErrorOnFailure ==
    /\ pc = "processing"
    /\ AllDone
    /\ Send([DefaultUpdate EXCEPT !.processed = processed_tasks,
                                  !.failed = failed_tasks,
                                  !.total = total_tasks,
                                  !.is_complete = TRUE,
                                  !.error_message = (failed_tasks > 0)])
    /\ pc' = "done"
    /\ UNCHANGED <<inputVars, files_to_process, total_tasks, processed_tasks,
                   failed_tasks, task, rx_alive, appVars>>

(* lines 166-175: the final snapshot *)
Final ==
    /\ pc = "processing"
    /\ AllDone
    /\ Send([DefaultUpdate EXCEPT !.processed = processed_tasks,
                                  !.failed = failed_tasks,
                                  !.total = total_tasks,
                                  !.is_complete = TRUE])
    /\ pc' = "done"
    /\ UNCHANGED <<inputVars, files_to_process, total_tasks, processed_tasks,
                   failed_tasks, task, rx_alive, appVars>>

(* mutant: the Err of run_conversion is swallowed without a snapshot *)
ReportError_Silent ==
    /\ pc = "err"
    /\ pc' = "done"
    /\ UNCHANGED <<inputVars, files_to_process, total_tasks, processed_tasks,
                   failed_tasks, task, sent, chan, rx_alive, appVars>>

(* process_files lines 36-42: run_conversion returned Err *)
ReportError ==
    /\ pc = "err"
    /\ Send([DefaultUpdate EXCEPT !.is_complete = TRUE, !.error_message = TRUE])
    /\ pc' = "done"
    /\ UNCHANGED <<inputVars, files_to_process, total_tasks, processed_tasks,
                   failed_tasks, task, rx_alive, appVars>>

(* ------------------------ process_single_file --------------------------- *)
(* mutant: the Err of a file is dropped without counting it *)
CountFailure_Lost(i) == failed_tasks

(* lines 224-229: the file returned Err *)
CountFailure(i) == failed_tasks + TasksInFile(files_to_process[i])

(* process_image lines 309-334 for a file that is no PDF: decode, optional  *)
(* watermark, encode, write (ok is the outcome of the ? chain), then the    *)
(* fetch_add on processed, or the Err branch of process_single_file         *)
StartImage(i) ==
    /\ pc = "processing"
    /\ i \in DOMAIN task
    /\ CanStart(i)
    /\ ~files_to_process[i].pdf
    /\ \E ok \in BOOLEAN :
          IF ok
          THEN /\ processed_tasks' = processed_tasks + 1
               /\ task' = [task EXCEPT ![i].attempts = @ + 1,
                                       ![i].result = "ok",
                                       ![i].ok_units = @ + 1,
                                       ![i].pc = "loadP"]
               /\ UNCHANGED failed_tasks
          ELSE /\ failed_tasks' = CountFailure(i)
               /\ task' = [task EXCEPT ![i].attempts = @ + 1,
                                       ![i].result = "err",
                                       ![i].pc = "done"]
               /\ UNCHANGED processed_tasks
    /\ UNCHANGED <<inputVars, mainVars, sent, chan, rx_alive, appVars>>

(* process_pdf line 243: render the document; rendered is the set of pages  *)
(* whose render_with_config succeeds. An Err takes the Err branch of        *)
(* process_single_file                                                      *)
StartPdf(i) ==
    /\ pc = "processing"
    /\ i \in DOMAIN task
    /\ CanStart(i)
    /\ files_to_process[i].pdf
    /\ \E rendered \in SUBSET (1..files_to_process[i].pages) :
          LET r == convert_pdf_to_images(files_to_process[i], rendered)
          IN  IF r.ok
              THEN /\ task' = [task EXCEPT ![i].attempts = @ + 1,
                                           ![i].images = r.images,
                                           ![i].idx = 1,
                                           ![i].result = "ok",
                                           ![i].pc = "page"]
                   /\ UNCHANGED failed_tasks
              ELSE /\ failed_tasks' = CountFailure(i)
                   /\ task' = [task EXCEPT ![i].attempts = @ + 1,
                                           ![i].result = "err",
                                           ![i].pc = "done"]
    /\ UNCHANGED <<inputVars, mainVars, processed_tasks, sent, chan, rx_alive, appVars>>

(* process_pdf lines 250-284: encode and write one page, count its outcome *)
SavePage(i) ==
    /\ pc = "processing"
    /\ i \in DOMAIN task
    /\ task[i].pc = "page"
    /\ \E ok \in BOOLEAN :
          IF ok
          THEN /\ processed_tasks' = processed_tasks + 1
               /\ task' = [task EXCEPT ![i].ok_units = @ + 1, ![i].pc = "loadP"]
               /\ UNCHANGED failed_tasks
          ELSE /\ failed_tasks' = failed_tasks + 1
               /\ task' = [task EXCEPT ![i].err_units = @ + 1, ![i].pc = "loadP"]
               /\ UNCHANGED processed_tasks
    /\ UNCHANGED <<inputVars, mainVars, sent, chan, rx_alive, appVars>>

(* lines 288 and 337: processed_tasks.load *)
LoadProcessed(i) ==
    /\ pc = "processing"
    /\ i \in DOMAIN task
    /\ task[i].pc = "loadP"
    /\ task' = [task EXCEPT ![i].p = processed_tasks, ![i].pc = "loadF"]
    /\ UNCHANGED <<inputVars, mainVars, processed_tasks, failed_tasks, sent, chan,
                   rx_alive, appVars>>

(* lines 289 and 338: failed_tasks.load *)
LoadFailed(i) ==
    /\ pc = "processing"
    /\ i \in DOMAIN task
    /\ task[i].pc = "loadF"
    /\ task' = [task EXCEPT ![i].f = failed_tasks, ![i].pc = "send"]
    /\ UNCHANGED <<inputVars, mainVars, processed_tasks, failed_tasks, sent, chan,
                   rx_alive, appVars>>

(* mutant: a failed send ends the worker (send(..)? instead of let _ =) *)
AfterSend_AbortOnClosed(t) ==
    IF rx_alive /\ t.idx # 0 /\ t.idx < Len(t.images)
    THEN [t EXCEPT !.idx = @ + 1, !.pc = "page"]
    ELSE [t EXCEPT !.pc = "done"]

(* what follows the send: the next page of the PDF, or return Ok(()) *)
AfterSend(t) ==
    IF t.idx # 0 /\ t.idx < Len(t.images)
    THEN [t EXCEPT !.idx = @ + 1, !.pc = "page"]
    ELSE [t EXCEPT !.pc = "done"]

(* lines 287-293 and 336-342: the progress snapshot of the unit *)
SendProgress(i) ==
    /\ pc = "processing"
    /\ i \in DOMAIN task
    /\ task[i].pc = "send"
    /\ Send([DefaultUpdate EXCEPT !.processed = task[i].p,
                                  !.failed = task[i].f,
                                  !.total = total_tasks,
                                  !.current_file = <<i, task[i].idx>>])
    /\ task' = [task EXCEPT ![i] = AfterSend(@)]
    /\ UNCHANGED <<inputVars, mainVars, processed_tasks, failed_tasks, rx_alive, appVars>>

Worker(i) ==
    \/ StartImage(i)
    \/ StartPdf(i)
    \/ SavePage(i)
    \/ LoadProcessed(i)
    \/ LoadFailed(i)
    \/ SendProgress(i)

(* ----------------------------- consumer --------------------------------- *)
(* ImageConverterApp::update lines 850-878: drain up to MaxDrain snapshots, *)
(* each overwriting progress, then refresh the status from the latest       *)
Update ==
    /\ rx_alive
    /\ Len(chan) > rcv
    /\ LET last == rcv + Min(MaxDrain, Len(chan) - rcv)
       IN  /\ rcv' = last
           /\ progress' = chan[last]
           /\ is_processing' = IF chan[last].is_complete THEN FALSE ELSE is_processing
           /\ is_error' = IF chan[last].is_complete /\ chan[last].error_message
                          THEN TRUE ELSE is_error
    /\ UNCHANGED <<inputVars, mainVars, processed_tasks, failed_tasks, task, sent,
                   chan, rx_alive>>

(* the application that owns the UnboundedReceiver goes away during a run:  *)
(* the receiver, the snapshots still queued in it and the application      *)
(* state are dropped                                                       *)
DropConsumer ==
    /\ rx_alive
    /\ pc # "done"
    /\ rx_alive' = FALSE
    /\ chan' = <<>>
    /\ rcv' = 0
    /\ progress' = DefaultUpdate
    /\ is_processing' = FALSE
    /\ is_error' = FALSE
    /\ UNCHANGED <<inputVars, mainVars, processed_tasks, failed_tasks, task, sent>>

(* ------------------------------ system ---------------------------------- *)
Batch ==
    \/ Enumerate
    \/ PreScan
    \/ ZeroTotal
    \/ Final
    \/ ReportError
    \/ \E i \in 1..MaxFiles : Worker(i)

(* BatchProcessor and the far end of its channel *)
Next ==
    \/ Batch
    \/ DropConsumer

Spec == Init /\ [][Next]_vars

(* the blocking task and the pool's workers always get to run *)
FairSpec == Spec /\ WF_vars(Batch)

(* BatchProcessor together with the application that consumes the snapshots *)
AppNext ==
    \/ Batch
    \/ DropConsumer
    \/ Update

AppSpec == Init /\ [][AppNext]_vars

(* --------------------------- encoder calls ------------------------------ *)
runVars == <<mode, is_dir, fs, pc, files_to_process, total_tasks,
             processed_tasks, failed_tasks, task, sent, chan, rx_alive, rcv,
             progress, is_processing, is_error>>
batchVars == <<runVars, output_format, pathVars, est>>

Becomes(c, next) == call' = [call EXCEPT ![c] = next]

(* the allocator places a new Vec at an address no live Vec occupies: the    *)
(* buffers of the pool and the ones the callers hold are live              *)
LiveAddresses ==
    {pool[i].id[2] : i \in 1..Len(pool)} \cup {call[c].buf.id[2] : c \in Callers}

FreeAddress == CHOOSE a \in 1..(Cardinality(LiveAddresses) + 1) : a \notin LiveAddresses

(* turbo_encode_jpeg lines 64-87: take a buffer, encode into it, decide *)
JpegAttempt(c) ==
    LET me == call[c]
        g == get_buffer((me.image.w * me.image.h * 3) \div 4, <<c, FreeAddress>>)
        k == Key("jpeg", me.quality, 0, me.image.w, me.image.h)
    IN  /\ me.pc = "jpeg"
        /\ me.attempts < MaxAttempts
        /\ \E v \in Encode(k, JpegOutcomes(me.target)) :
              LET output_buffer == [g.buf EXCEPT !.data = Append(@, Token(k, v))]
                  tried == [me EXCEPT !.attempts = @ + 1, !.passes = @ + 1]
              IN  /\ codec' = Learn(k, v)
                  /\ pool' = g.pool
                  /\ IF v = EncodeErr
                     THEN Becomes(c, [tried EXCEPT !.ret = Err, !.pc = "ret"])
                     ELSE IF /\ me.target # NoTarget
                             /\ BufLen(output_buffer.data) > me.target
                             /\ me.quality > 10
                          THEN Becomes(c, [tried EXCEPT !.buf = output_buffer,
                                                        !.pc = "jpeg_retry"])
                          ELSE Becomes(c, [tried EXCEPT !.buf = output_buffer,
                                                        !.ret = Ok(output_buffer.data),
                                                        !.pc = "ret"])
        /\ UNCHANGED batchVars

(* turbo_encode_jpeg lines 78-80: give the buffer back, lower the quality *)
JpegRetry(c) ==
    LET me == call[c]
    IN  /\ me.pc = "jpeg_retry"
        /\ pool' = return_buffer(pool, me.buf)
        /\ Becomes(c, [me EXCEPT !.buf = NoBuf, !.quality = JpegDecay(@),
                                 !.pc = "jpeg"])
        /\ UNCHANGED <<codec, batchVars>>

(* mutant: the lossless encode is compared for every image *)
AfterLossy_AlwaysCompare(me, result) ==
    IF me.entry = "encode_webp_lossy"
    THEN [me EXCEPT !.ret = Ok(result), !.pc = "ret"]
    ELSE [me EXCEPT !.lossy = result, !.pc = "compare"]

(* after the lossy search of encode_webp_smart (lines 84-96) *)
AfterLossy(me, result) ==
    IF me.entry = "encode_webp_lossy"
    THEN [me EXCEPT !.ret = Ok(result), !.pc = "ret"]
    ELSE IF me.prefer_quality \/ me.image.w * me.image.h < 500000
         THEN [me EXCEPT !.lossy = result, !.pc = "compare"]
         ELSE [me EXCEPT !.ret = Ok(result), !.pc = "ret"]

(* encode_webp_lossy lines 16-41: one encode and the decision to retry *)
WebpAttempt(c) ==
    LET me == call[c]
        k == Key("webp", me.quality, me.decays, me.image.w, me.image.h)
    IN  /\ me.pc = "webp"
        /\ me.attempts < MaxAttempts
        /\ \E v \in Encode(k, WebpOutcomes(me.target)) :
              LET tried == [me EXCEPT !.attempts = @ + 1, !.passes = @ + 1]
              IN  /\ codec' = Learn(k, v)
                  /\ IF /\ me.target # NoTarget
                        /\ v > me.target
                        /\ WebpAboveFloor(me.quality, me.decays)
                     THEN Becomes(c, [tried EXCEPT !.decays = @ + 1])
                     ELSE Becomes(c, AfterLossy(tried, <<Token(k, v)>>))
        /\ UNCHANGED <<pool, batchVars>>

(* mutant: the lossless encode is chosen only when it fits the target *)
WebpCompare_NoMargin(c) ==
    LET me == call[c]
        k == Key("webp_lossless", 0, 0, me.image.w, me.image.h)
    IN  /\ me.pc = "compare"
        /\ \E v \in Encode(k, LosslessOutcomes(me.target)) :
              /\ codec' = Learn(k, v)
              /\ Becomes(c, [me EXCEPT
                    !.passes = @ + 1, !.lossy = <<>>, !.pc = "ret",
                    !.ret = IF v <= me.target
                            THEN Ok(<<Token(k, v)>>) ELSE Ok(me.lossy)])
        /\ UNCHANGED <<pool, batchVars>>

(* encode_webp_smart lines 87-96: the lossless encode and the choice *)
WebpCompare(c) ==
    LET me == call[c]
        k == Key("webp_lossless", 0, 0, me.image.w, me.image.h)
    IN  /\ me.pc = "compare"
        /\ \E v \in Encode(k, LosslessOutcomes(me.target)) :
              /\ codec' = Learn(k, v)
              /\ Becomes(c, [me EXCEPT
                    !.passes = @ + 1, !.lossy = <<>>, !.pc = "ret",
                    !.ret = IF v <= (me.target * 12) \div 10
                            THEN Ok(<<Token(k, v)>>) ELSE Ok(me.lossy)])
        /\ UNCHANGED <<pool, batchVars>>

(* encode_webp_lossless, called for format WebPLossless *)
WebpLossless(c) ==
    LET me == call[c]
        k == Key("webp_lossless", 0, 0, me.image.w, me.image.h)
    IN  /\ me.pc = "lossless"
        /\ \E v \in Encode(k, LosslessOutcomes(me.target)) :
              /\ codec' = Learn(k, v)
              /\ Becomes(c, [me EXCEPT !.passes = @ + 1, !.pc = "ret",
                                       !.ret = Ok(<<Token(k, v)>>)])
        /\ UNCHANGED <<pool, batchVars>>

(* mutant: the estimate is not compared with the target *)
PngPlan_AlwaysResize(c) ==
    LET me == call[c]
        quick_size == estimate_png_size(me.image.w, me.image.h)
    IN  /\ me.pc = "png"
        /\ IF ScaleTooSmall(me.target, quick_size)
           THEN Becomes(c, [me EXCEPT !.ret = Err, !.pc = "ret"])
           ELSE Becomes(c, [me EXCEPT
                   !.dims = [w |-> ScaledSide(me.image.w, me.target, quick_size),
                             h |-> ScaledSide(me.image.h, me.target, quick_size)],
                   !.resized = TRUE, !.pc = "png_fast"])
        /\ UNCHANGED <<pool, codec, batchVars>>

(* turbo_encode_png_compressed lines 132-159: estimate, scale, resize *)
PngPlan(c) ==
    LET me == call[c]
        quick_size == estimate_png_size(me.image.w, me.image.h)
    IN  /\ me.pc = "png"
        /\ IF quick_size <= me.target
           THEN Becomes(c, [me EXCEPT !.pc = "png_fast"])
           ELSE IF ScaleTooSmall(me.target, quick_size)
                THEN Becomes(c, [me EXCEPT !.ret = Err, !.pc = "ret"])
                ELSE Becomes(c, [me EXCEPT
                        !.dims = [w |-> ScaledSide(me.image.w, me.target, quick_size),
                                  h |-> ScaledSide(me.image.h, me.target, quick_size)],
                        !.resized = TRUE, !.pc = "png_fast"])
        /\ UNCHANGED <<pool, codec, batchVars>>

(* turbo_encode_png_fast: take a buffer, encode from its start, truncate *)
PngFast(c) ==
    LET me == call[c]
        g == get_buffer(me.dims.w * me.dims.h * 4 + 1024, <<c, FreeAddress>>)
        k == Key("png", 0, 0, me.dims.w, me.dims.h)
    IN  /\ me.pc = "png_fast"
        /\ \E v \in Encode(k, PngOutcomes(me.target)) :
              /\ codec' = Learn(k, v)
              /\ pool' = g.pool
              /\ Becomes(c, [me EXCEPT
                    !.passes = @ + 1, !.pc = "ret",
                    !.buf = IF v = EncodeErr THEN NoBuf
                            ELSE [g.buf EXCEPT !.data = <<Token(k, v)>>],
                    !.ret = IF v = EncodeErr THEN Err ELSE Ok(<<Token(k, v)>>)])
        /\ UNCHANGED batchVars

(* the call returns; compress_and_save lines 39-44 writes the file, and    *)
(* the worker counts the unit (batch_processor.rs lines 332-343, 224-229)  *)
Return(c) ==
    LET me == call[c]
    IN  /\ me.pc = "ret"
        /\ IF me.entry # "compress_and_save"
           THEN Becomes(c, [me EXCEPT !.pc = "done"])
           ELSE IF me.ret.state = "err"
                THEN Becomes(c, [me EXCEPT !.unit = "failed", !.pc = "done"])
                ELSE \E written \in BOOLEAN :
                        Becomes(c, [me EXCEPT
                            !.wrote = written,
                            !.written = IF written THEN me.ret.data ELSE <<>>,
                            !.unit = IF written THEN "processed" ELSE "failed",
                            !.pc = "done"])
        /\ UNCHANGED <<pool, codec, batchVars>>

EncStep(c) ==
    \/ JpegAttempt(c)
    \/ JpegRetry(c)
    \/ WebpAttempt(c)
    \/ WebpCompare(c)
    \/ WebpLossless(c)
    \/ PngPlan(c)
    \/ PngFast(c)
    \/ Return(c)

EncNext == \E c \in Callers : EncStep(c)

(* the batch is not running *)
RunIdle ==
    /\ mode = "SingleFile"
    /\ is_dir = FALSE
    /\ fs = <<>>
    /\ pc = "done"
    /\ files_to_process = <<>>
    /\ total_tasks = 0
    /\ processed_tasks = 0
    /\ failed_tasks = 0
    /\ task = <<>>
    /\ sent = <<>>
    /\ chan = <<>>
    /\ rx_alive = FALSE
    /\ rcv = 0
    /\ progress = DefaultUpdate
    /\ is_processing = FALSE
    /\ is_error = FALSE

BatchIdle ==
    /\ RunIdle
    /\ output_format = "Jpeg"
    /\ folder = {}
    /\ listing = <<>>
    /\ outputs = {}
    /\ est = <<>>

(* one call of any public encoder, any arguments, on an empty pool *)
EncCalls ==
    {CompressAndSave(i, kb, f) : i \in Images, kb \in TargetKbs,
                                 f \in Formats \ {"PngCompressed"}}
    \cup {CompressAndSave(i, kb, "PngCompressed") : i \in SmallImages, kb \in TargetKbs}
    \cup {CompressAndSave(i, 1, "PngCompressed") : i \in MediumImages}
    \cup {TurboEncodeJpeg(i, q, t) : i \in SmallImages, q \in 0..MaxQuality, t \in Targets}
    \cup {EncodeWebpLossy(i, q, t) : i \in SmallImages, q \in WebpQualities, t \in Targets}
    \cup {EncodeWebpSmart(i, t, p) : i \in Images, t \in Targets \ {NoTarget}, p \in BOOLEAN}
    \cup {TurboEncodePngCompressed(i, t) : i \in SmallImages, t \in PngTargets}

EncInit ==
    /\ BatchIdle
    /\ pool = <<>>
    /\ codec = {}
    /\ \E first \in EncCalls : call = [c \in Callers |-> IF c = 1 THEN first ELSE IdleCall]

EncSpec == EncInit /\ [][EncNext]_vars
EncFairSpec == EncSpec /\ WF_vars(EncNext)

(* capacities of the buffers the pool can hold: 1 MiB and larger powers of  *)
(* two, as get_buffer allocates them                                        *)
PoolCaps == {1024 * 1024, 2 * 1024 * 1024}
PooledBuffers(caps) == [i \in 1..Len(caps) |-> [id |-> <<0, i>>, cap |-> caps[i], data |-> <<>>]]

(* the bitmaps and targets of the two workers: a small bitmap, one whose     *)
(* JPEG estimate fits every pooled buffer and one whose estimate fits none  *)
(* of 1 MiB; a target of each quality tier                                  *)
PoolImages == {[w |-> 36, h |-> 20], [w |-> 800, h |-> 700], [w |-> 1500, h |-> 1000]}
PoolTargetKbs == {0, 49, 196}

(* two workers save the same bitmap in the same format, on a pool that      *)
(* holds the buffers earlier encodes returned; the two targets may differ   *)
(* for the formats that take no target                                      *)
PoolInit ==
    /\ BatchIdle
    /\ \E caps \in SeqsUpTo(PoolCaps, MaxPooled) : pool = PooledBuffers(caps)
    /\ codec = {}
    /\ \E i \in PoolImages, f \in Formats, kb1 \in PoolTargetKbs, kb2 \in PoolTargetKbs :
          /\ f = "PngCompressed" => i \in SmallImages
          /\ kb1 = kb2 \/ (f \in {"PngOriginal", "WebPLossless"} /\ kb1 < kb2)
          /\ call = [c \in Callers |-> IF c = 1 THEN CompressAndSave(i, kb1, f)
                                       ELSE CompressAndSave(i, kb2, f)]

PoolSpec == PoolInit /\ [][EncNext]_vars

(* --------------------------- size estimate ------------------------------ *)
(* one call of estimate_png_size. width * height is a u32 multiplication:   *)
(* when it overflows, a build with overflow checks (debug) panics and one   *)
(* without (release) goes on with the wrapped product                       *)
EstimatePngSize(width, height) ==
    /\ Len(est) < MaxEstimates
    /\ \E build \in {"debug", "release"} :
          est' = Append(est,
                    IF U32Overflows(width, height) /\ build = "debug"
                    THEN [w |-> width, h |-> height, state |-> "panic", size |-> 0]
                    ELSE [w |-> width, h |-> height, state |-> "ok",
                          size |-> estimate_png_size(width, height)])
    /\ UNCHANGED <<runVars, output_format, encVars, pathVars>>

EstNext == \E d \in EstInputs : EstimatePngSize(d.w, d.h)

EstInit ==
    /\ BatchIdle
    /\ call = [c \in Callers |-> IdleCall]
    /\ pool = <<>>
    /\ codec = {}

EstSpec == EstInit /\ [][EstNext]_vars

(* --------------------------- output paths ------------------------------- *)
(* OutputFormat::extension *)
extension(format) ==
    CASE format = "Jpeg" -> "jpg"
      [] format \in {"PngCompressed", "PngOriginal"} -> "png"
      [] format \in {"WebPLossy", "WebPLossless"} -> "webp"

(* a source file: its directory under the input folder, its stem, its       *)
(* extension, and for a PDF the number of bitmaps it renders to             *)
SourceFiles ==
    {[dir |-> d, stem |-> st, ext |-> e, pages |-> 0] :
        d \in {"in", "in/sub"}, st \in {"a", "b"}, e \in {"png", "jpg", "txt"}}
    \cup {[dir |-> d, stem |-> st, ext |-> "pdf", pages |-> n] :
        d \in {"in", "in/sub"}, st \in {"a", "b"}, n \in 1..MaxPages}

SourcePath(f) == <<f.dir, f.stem, f.ext>>

(* process_image lines 310-311: output_dir.join(file_name).with_extension  *)
ImageOutputPath(f, format) == [name |-> <<f.stem, 0>>, ext |-> extension(format)]

(* process_pdf lines 250-251: output_dir.join("<stem>_page_<n>.<ext>") *)
PageOutputPath(f, n, format) == [name |-> <<f.stem, n>>, ext |-> extension(format)]

WrittenOf(i) == {o \in outputs : o.unit[1] = i}

(* image::open (process_image line 308) decodes the file: the formats of the *)
(* image crate, told by the extension                                        *)
Decodable(f) == f.ext \in {"png", "jpg"}

(* the orders in which a directory walk can yield the files of a set *)
Orderings(S) ==
    {s \in SeqsUpTo(S, Cardinality(S)) :
        /\ Len(s) = Cardinality(S)
        /\ \A i \in 1..Len(s), j \in 1..Len(s) : i # j => s[i] # s[j]}

(* get_files_in_directory lines 11-17: every regular file under the folder, *)
(* subfolders included, in the order WalkDir reads the directories (no      *)
(* sort_by, no filter on the extension)                                     *)
WalkFolder ==
    /\ listing = <<>>
    /\ folder # {}
    /\ listing' \in Orderings(folder)
    /\ UNCHANGED <<runVars, output_format, encVars, folder, outputs, est>>

(* process_image writes the output of image i *)
WriteImage(i) ==
    /\ i \in 1..Len(listing)
    /\ listing[i].ext # "pdf"
    /\ Decodable(listing[i])
    /\ WrittenOf(i) = {}
    /\ outputs' = outputs \cup {[path |-> ImageOutputPath(listing[i], output_format),
                                  unit |-> <<i, 0>>]}
    /\ UNCHANGED <<runVars, output_format, encVars, folder, listing, est>>

(* process_pdf writes the next page of PDF i *)
WritePdfPage(i) ==
    /\ i \in 1..Len(listing)
    /\ listing[i].ext = "pdf"
    /\ LET n == Cardinality(WrittenOf(i)) + 1
       IN  /\ n <= listing[i].pages
           /\ outputs' = outputs \cup {[path |-> PageOutputPath(listing[i], n, output_format),
                                         unit |-> <<i, n>>]}
    /\ UNCHANGED <<runVars, output_format, encVars, folder, listing, est>>

PathNext == WalkFolder \/ \E i \in 1..MaxFiles : WriteImage(i) \/ WritePdfPage(i)

(* a folder of distinct source paths, converted to one format *)
PathInit ==
    /\ RunIdle
    /\ output_format \in Formats
    /\ call = [c \in Callers |-> IdleCall]
    /\ pool = <<>>
    /\ codec = {}
    /\ folder \in {{s[i] : i \in 1..Len(s)} : s \in SeqsUpTo(SourceFiles, MaxFiles)}
    /\ \A f \in folder, g \in folder : f # g => SourcePath(f) # SourcePath(g)
    /\ listing = <<>>
    /\ outputs = {}
    /\ est = <<>>

PathSpec == PathInit /\ [][PathNext]_vars

TypeOK ==
    /\ pc \in {"start", "prescan", "zero", "processing", "err", "done"}
    /\ processed_tasks \in Nat
    /\ failed_tasks \in Nat
    /\ total_tasks \in Nat
    /\ rcv \in 0..Len(chan)
    /\ Len(chan) <= Len(sent)

(* ------------------------- auxiliary notions ---------------------------- *)
Files == DOMAIN files_to_process
Tasks == DOMAIN task
Last(q) == q[Len(q)]
Completes == {k \in DOMAIN sent : sent[k].is_complete}
EnumerationFailed == mode = "Folder" /\ ~is_dir
Processing == pc \in {"processing", "done"} /\ task # <<>>
Finished == pc = "done" /\ task # <<>>
AllImages == \A i \in Files : ~files_to_process[i].pdf

(* ------------------------------- C1 ------------------------------------- *)
(* C1: every run that reaches the processing phase ends with a terminal    *)
(* snapshot in which processed + failed = total, total being the pre-scan  *)
(* sum (1 per image file, the page count per PDF file).                    *)
C1_TerminalCountsSumToTotal ==
    Finished =>
        /\ Last(sent).is_complete
        /\ Last(sent).total = SumUnits(files_to_process)
        /\ Last(sent).processed + Last(sent).failed = Last(sent).total

(* ------------------------------- C2 ------------------------------------- *)
NumFailed == Cardinality({i \in Tasks : task[i].result = "err"})

(* C2: in a batch of n image files of which k fail, every file is attempted *)
(* exactly once, under the parallel and the serial strategy alike, and the  *)
(* terminal snapshot reports processed = n - k, failed = k, total = n,      *)
(* is_complete = true.                                                      *)
C2_FailureIsolation ==
    (Processing /\ AllImages) =>
        /\ \A i \in Tasks : task[i].attempts <= 1
        /\ pc = "done" =>
              /\ \A i \in Tasks : task[i].attempts = 1
              /\ Last(sent) = [DefaultUpdate EXCEPT
                                  !.processed = Len(files_to_process) - NumFailed,
                                  !.failed = NumFailed,
                                  !.total = Len(files_to_process),
                                  !.is_complete = TRUE]

C2_Witness ==
    /\ Finished
    /\ AllImages
    /\ Len(files_to_process) = 2
    /\ NumFailed = 1
    /\ task[1].result = "err"
    /\ Last(sent).processed = 1
    /\ Last(sent).failed = 1

(* ------------------------------- C3 ------------------------------------- *)
(* C3: every started run eventually sends a snapshot with is_complete =     *)
(* true: when enumeration fails, when the input is empty, when the pre-scan *)
(* total is 0, and after processing, however many units fail.               *)
C3_EventuallyTerminalSnapshot == <>(Completes # {})

C3_Witness ==
    /\ Finished
    /\ Last(sent).is_complete
    /\ Last(sent).processed = 0
    /\ Last(sent).failed = 2
    /\ Last(sent).total = 2

(* ------------------------------- C4 ------------------------------------- *)
(* C4: a run sends exactly one snapshot with is_complete = true; it is sent *)
(* only after every work unit has finished, no snapshot follows it, and its *)
(* processed and failed fields are the final values of the two counters.    *)
C4_SingleTerminalSnapshot ==
    /\ Cardinality(Completes) <= 1
    /\ pc = "done" => Cardinality(Completes) = 1
    /\ \A k \in Completes :
          /\ k = Len(sent)
          /\ \A i \in Tasks : task[i].pc = "done"
          /\ sent[k].processed = processed_tasks
          /\ sent[k].failed = failed_tasks
    /\ \A k \in DOMAIN chan : chan[k].is_complete => k = Len(chan)

C4_Witness ==
    /\ Finished
    /\ Len(files_to_process) = 2
    /\ ~Serial(output_format)
    /\ Cardinality(Completes) = 1
    /\ Len(sent) = 5
    /\ Last(chan).is_complete
    /\ Last(chan).processed = 2

(* ------------------------------- C5 ------------------------------------- *)
(* C5: under the parallel formats the processed and failed values of        *)
(* successive snapshots in channel order are non-decreasing, so the         *)
(* snapshot the consumer holds never shows a smaller count than one it      *)
(* took off the channel earlier.                                            *)
C5_SnapshotsMonotone ==
    ~Serial(output_format) =>
        /\ \A j \in DOMAIN chan : \A k \in DOMAIN chan :
              j < k => /\ chan[j].processed <= chan[k].processed
                       /\ chan[j].failed <= chan[k].failed
        /\ \A j \in 1..rcv : /\ chan[j].processed <= progress.processed
                             /\ chan[j].failed <= progress.failed

(* ------------------------------- C6 ------------------------------------- *)
(* C6: every snapshot satisfies processed + failed <= total once the total  *)
(* is announced; a snapshot with total = 0 is sent only before the pre-scan *)
(* completes or in a run whose total is 0.                                  *)
C6_CountsWithinTotal ==
    /\ \A k \in DOMAIN sent :
          /\ sent[k].processed + sent[k].failed <= sent[k].total
          /\ sent[k].total \in {0, total_tasks}
          /\ sent[k].total = 0 => (k = 1 \/ total_tasks = 0)
    /\ processed_tasks + failed_tasks <= total_tasks

C6_Witness ==
    /\ Finished
    /\ \E i \in Files : files_to_process[i].pdf /\ task[i].result = "err"
    /\ \E k \in DOMAIN sent :
          /\ ~sent[k].is_complete
          /\ sent[k].total = 2
          /\ sent[k].processed = 1
          /\ sent[k].failed = 1

(* ------------------------------- C7 ------------------------------------- *)
Active(i) == task[i].pc \notin {"todo", "done"}

ZeroUnits == ~EnumerationFailed /\ pc = "done" /\ SumUnits(files_to_process) = 0

C9_ErrorOnlyFromEnumeration ==
    \A k \in DOMAIN sent :
        sent[k].error_message =>
            /\ EnumerationFailed
            /\ sent[k] = [DefaultUpdate EXCEPT !.is_complete = TRUE,
                                               !.error_message = TRUE]
            /\ processed_tasks = 0
            /\ failed_tasks = 0

C9_Witness ==
    /\ Finished
    /\ Len(files_to_process) = 2
    /\ failed_tasks = 2
    /\ Last(sent).is_complete
    /\ Last(sent).failed = 2
    /\ ~Last(sent).error_message

(* ------------------------------- C10 ------------------------------------ *)
(* what the collaborators' outcomes of file i amount to *)
UnitsOf(i) == IF files_to_process[i].pdf THEN Len(task[i].images) ELSE 1
FailedOf(i) ==
    task[i].err_units
    + (IF task[i].result = "err" THEN TasksInFile(files_to_process[i]) ELSE 0)

RECURSIVE OkUpTo(_)
OkUpTo(n) == IF n = 0 THEN 0 ELSE task[n].ok_units + OkUpTo(n - 1)

RECURSIVE FailedUpTo(_)
FailedUpTo(n) == IF n = 0 THEN 0 ELSE FailedOf(n) + FailedUpTo(n - 1)

(* C10: with the consumer dropped at any point of the run, every unit is    *)
(* still processed, no unit is counted as failed because of a send, and the *)
(* counters end at the values the units' own outcomes give, as they do with *)
(* a live consumer.                                                         *)
C10_SendFailureIgnored ==
    /\ processed_tasks = OkUpTo(Len(task))
    /\ failed_tasks = FailedUpTo(Len(task))
    /\ Finished =>
          /\ \A i \in Tasks :
                /\ task[i].attempts = 1
                /\ task[i].result = "ok" =>
                      task[i].ok_units + task[i].err_units = UnitsOf(i)
          /\ Last(sent).is_complete
          /\ Last(sent).processed = processed_tasks
          /\ Last(sent).failed = failed_tasks

C10_Witness ==
    /\ Finished
    /\ ~rx_alive
    /\ \E i \in Files : files_to_process[i].pdf /\ task[i].ok_units = 1
                                                 /\ task[i].err_units = 1
    /\ processed_tasks = 1
    /\ failed_tasks = 1
    /\ Len(sent) = 5

(* ------------------------- encoder claims ------------------------------- *)
Searching(c) == call[c].entry \in {"turbo_encode_jpeg", "encode_webp_lossy"}
Returned(c) == call[c].pc \in {"ret", "done"}
AllReturned == \A c \in Callers : call[c].pc = "done"

(* the quality of the last attempt is at the floor *)
AtFloor(c) ==
    IF call[c].format = "Jpeg" THEN call[c].quality <= 10
    ELSE call[c].quality * 4^call[c].decays <= 10 * 5^call[c].decays

(* the key of the last attempt of the quality search *)
LastKey(c) ==
    IF call[c].format = "Jpeg"
    THEN Key("jpeg", call[c].quality, 0, call[c].image.w, call[c].image.h)
    ELSE Key("webp", call[c].quality, call[c].decays, call[c].image.w, call[c].image.h)

C11_SearchBounded ==
    \A c \in Callers :
        /\ call[c].attempts <= 20
        /\ (Searching(c) /\ Returned(c)) =>
              \E e \in codec :
                  /\ e.k = LastKey(c)
                  /\ IF e.v = EncodeErr
                     THEN call[c].ret = Err
                     ELSE /\ call[c].ret = Ok(<<Token(e.k, e.v)>>)
                          /\ \/ call[c].target = NoTarget
                             \/ e.v <= call[c].target
                             \/ AtFloor(c)

FirstKey(c) ==
    IF call[c].format = "Jpeg"
    THEN Key("jpeg", JpegInitialQuality(call[c].target), 0,
             call[c].image.w, call[c].image.h)
    ELSE Key("webp", WebpInitialQuality(call[c].target), 0,
             call[c].image.w, call[c].image.h)

(* that encode was made and its output fits the target *)
FirstFits(c) ==
    \E e \in codec : e.k = FirstKey(c) /\ e.v # EncodeErr /\ e.v <= call[c].target

FirstToken(c) == Token(FirstKey(c), (CHOOSE e \in codec : e.k = FirstKey(c)).v)

Saved(c, format) ==
    /\ call[c].entry = "compress_and_save"
    /\ call[c].format = format
    /\ call[c].pc = "done"
    /\ call[c].wrote

SmartReturned(c) ==
    /\ \/ call[c].entry = "encode_webp_smart"
       \/ call[c].entry = "compress_and_save" /\ call[c].format = "WebPLossy"
    /\ call[c].pc = "ret"

(* C13 as claimed: whatever encode_webp_smart returns is at most            *)
(* target_size_bytes * 12 / 10 long.                                        *)
C13_SmartWithin120 ==
    \A c \in Callers :
        SmartReturned(c) =>
            /\ call[c].ret.state = "ok"
            /\ BufLen(call[c].ret.data) <= (call[c].target * 12) \div 10

(* C13: encode_webp_smart returns either the lossless encode, at most       *)
(* target_size_bytes * 12 / 10 long, or the result of the lossy search,     *)
(* which fits the target or was made at a quality of at most 10 (and may    *)
(* then be longer than 120% of the target).                                 *)
C13_SmartLosslessOrBestEffort ==
    \A c \in Callers :
        SmartReturned(c) =>
            /\ call[c].ret.state = "ok"
            /\ Len(call[c].ret.data) = 1
            /\ LET out == call[c].ret.data[1]
               IN  IF out.codec = "webp_lossless"
                   THEN out.len <= (call[c].target * 12) \div 10
                   ELSE /\ \E e \in codec : e.k = LastKey(c) /\ out = Token(e.k, e.v)
                        /\ out.len <= call[c].target \/ AtFloor(c)

C13_Witness ==
    \E c \in Callers :
        /\ SmartReturned(c)
        /\ call[c].passes = call[c].attempts + 1
        /\ call[c].ret.data[1].codec = "webp"
        /\ BufLen(call[c].ret.data) > (call[c].target * 12) \div 10

(* a call that runs turbo_encode_png_compressed *)
PngCompressedCall(c) ==
    \/ call[c].entry = "turbo_encode_png_compressed"
    \/ call[c].entry = "compress_and_save" /\ call[c].format = "PngCompressed"

EstimateFits(c) ==
    estimate_png_size(call[c].image.w, call[c].image.h) <= call[c].target

(* C14 as claimed: when the estimate fits the target the image is encoded   *)
(* once at its original dimensions, without a resize, and the call          *)
(* succeeds.                                                                *)
C14_FitEncodesOnceAndSucceeds ==
    \A c \in Callers :
        (PngCompressedCall(c) /\ EstimateFits(c)) =>
            /\ ~call[c].resized
            /\ call[c].dims = call[c].image
            /\ call[c].pc = "ret" => call[c].passes = 1 /\ call[c].ret.state = "ok"

(* C14: when the estimate fits the target the image is encoded once at its  *)
(* original dimensions, without a resize, and the call returns what that    *)
(* one encode gives: its bytes, or its error when the PNG encoder fails.    *)
C14_FitEncodesOnce ==
    \A c \in Callers :
        (PngCompressedCall(c) /\ EstimateFits(c)) =>
            /\ ~call[c].resized
            /\ call[c].dims = call[c].image
            /\ call[c].pc = "ret" =>
                  /\ call[c].passes = 1
                  /\ \E e \in codec :
                        /\ e.k = Key("png", 0, 0, call[c].image.w, call[c].image.h)
                        /\ call[c].ret = IF e.v = EncodeErr THEN Err
                                         ELSE Ok(<<Token(e.k, e.v)>>)

C14_Witness ==
    \E c \in Callers :
        /\ PngCompressedCall(c)
        /\ EstimateFits(c)
        /\ call[c].pc = "ret"
        /\ call[c].ret.state = "ok"
        /\ call[c].ret.data[1].w = call[c].image.w
        /\ call[c].ret.data[1].h = call[c].image.h

(* s = sqrt(target / estimate) * 0.95 < 0.1, i.e. target / estimate is      *)
(* below (0.1 / 0.95)^2 = 4 / 361                                           *)
ScaleBelowTenth(c) ==
    /\ ~EstimateFits(c)
    /\ 361 * call[c].target < 4 * estimate_png_size(call[c].image.w, call[c].image.h)

(* C15: with a scale below 0.1 turbo_encode_png_compressed returns an error *)
(* without resizing or encoding; compress_and_save then writes no file and  *)
(* the unit is counted as failed. A call that succeeds after a resize used  *)
(* a scale of at least 0.1.                                                 *)
C15_TooSmallTargetFails ==
    \A c \in Callers :
        PngCompressedCall(c) =>
            /\ (ScaleBelowTenth(c) /\ call[c].pc # "png") =>
                  /\ call[c].ret = Err
                  /\ call[c].passes = 0
                  /\ ~call[c].resized
                  /\ call[c].dims = call[c].image
                  /\ pool = <<>>
                  /\ codec = {}
                  /\ ~call[c].wrote
                  /\ call[c].pc = "done" =>
                        (call[c].entry = "compress_and_save" => call[c].unit = "failed")
            /\ (call[c].resized /\ call[c].ret.state = "ok") => ~ScaleBelowTenth(c)

C15_Witness ==
    \E c \in Callers :
        /\ call[c].entry = "compress_and_save"
        /\ call[c].format = "PngCompressed"
        /\ call[c].target = 1024
        /\ ScaleBelowTenth(c)
        /\ call[c].pc = "done"
        /\ call[c].unit = "failed"
        /\ ~call[c].wrote

(* two calls of compress_and_save with the same bitmap and format *)
SameBitmap(c, d) ==
    /\ c # d
    /\ call[c].entry = "compress_and_save"
    /\ call[d].entry = "compress_and_save"
    /\ call[c].image = call[d].image
    /\ call[c].format = call[d].format

(* C16: two encodes of the same bitmap with the same format and target      *)
(* give the same result and write the same bytes, whatever buffers the pool *)
(* holds and however the two calls interleave.                              *)
C16_EncodeDeterministic ==
    \A c \in Callers, d \in Callers :
        (SameBitmap(c, d) /\ call[c].target = call[d].target) =>
            /\ (Returned(c) /\ Returned(d)) => call[c].ret = call[d].ret
            /\ (call[c].wrote /\ call[d].wrote) => call[c].written = call[d].written

C16_Witness ==
    /\ SameBitmap(1, 2)
    /\ call[1].format = "Jpeg"
    /\ call[1].target = call[2].target
    /\ call[1].wrote /\ call[2].wrote
    /\ call[1].attempts > 1
    /\ call[1].written = call[2].written
    /\ call[1].buf.cap # call[2].buf.cap

TargetFree == {"PngOriginal", "WebPLossless"}

(* C17: for PngOriginal and WebPLossless two calls on the same bitmap that  *)
(* differ only in target_kb write identical bytes, each from exactly one    *)
(* encode pass, and fail only when the encoder itself fails.                *)
C17_TargetIgnored ==
    \A c \in Callers, d \in Callers :
        (SameBitmap(c, d) /\ call[c].format \in TargetFree) =>
            /\ Returned(c) =>
                  /\ call[c].passes = 1
                  /\ call[c].attempts = 0
                  /\ ~call[c].resized
                  /\ call[c].ret = Err =>
                        \E e \in codec : e.k[1] = "png" /\ e.v = EncodeErr
            /\ (Returned(c) /\ Returned(d)) => call[c].ret = call[d].ret
            /\ (call[c].wrote /\ call[d].wrote) => call[c].written = call[d].written

C17_Witness ==
    /\ SameBitmap(1, 2)
    /\ call[1].format = "PngOriginal"
    /\ call[1].target = 0
    /\ call[2].target > estimate_png_size(call[2].image.w, call[2].image.h)
    /\ call[1].wrote /\ call[2].wrote
    /\ call[1].written = call[2].written
    /\ call[1].passes = 1 /\ call[2].passes = 1

(* --------------------------- output files ------------------------------- *)
(* process_pdf line 250: in the loop pass that writes <stem>_page_<n>, n is *)
(* task[i].idx and the bitmap written is the page task[i].images[n].        *)
PdfTasks == {i \in Tasks : files_to_process[i].pdf /\ files_to_process[i].loadable}

(* C18: a PDF with N pages contributes N to the total and gives N files     *)
(* <stem>_page_<n>, n = 1..N, written in ascending order, the bitmap of     *)
(* page n going to the file with suffix n (N files being there once the     *)
(* PDF is done without a failed unit).                                      *)
C18_PdfPagesToFiles ==
    \A i \in PdfTasks :
        LET N == files_to_process[i].pages
        IN  /\ PreScanUnits(files_to_process[i]) = N
            /\ task[i].pc = "page" =>
                  /\ task[i].idx \in 1..N
                  /\ task[i].images[task[i].idx] = task[i].idx
            /\ (task[i].pc = "done" /\ task[i].result = "ok" /\ task[i].err_units = 0) =>
                  task[i].ok_units = N

(* C19: within one run no two distinct work units are written to the same  *)
(* output path.                                                             *)
C19_OutputPathsDistinct ==
    \A a \in outputs, b \in outputs : a.path = b.path => a.unit = b.unit

(* ------------------------------- C20 ------------------------------------ *)
PreScanned == pc \in {"zero", "processing"} \/ (pc = "done" /\ Len(sent) >= 2)
Started == {i \in Tasks : task[i].pc # "todo"}

(* C20: the total is the pre-scan's sum and does not change afterwards; the *)
(* snapshot announcing it is the second of the run and is sent before any   *)
(* work unit starts; every later snapshot carries the same total.           *)
C20_TotalAnnouncedOnce ==
    /\ Started # {} => PreScanned
    /\ PreScanned =>
          /\ total_tasks = SumUnits(files_to_process)
          /\ Len(sent) >= 2
          /\ sent[2] = [DefaultUpdate EXCEPT !.total = total_tasks]
          /\ \A k \in 3..Len(sent) : sent[k].total = sent[2].total

C20_Witness ==
    /\ Finished
    /\ total_tasks = 2
    /\ Len(sent) >= 5
    /\ sent[3].processed + sent[3].failed > 0
    /\ Last(sent).is_complete
    /\ Last(sent).total = 2

(* ------------------------------- C21 ------------------------------------ *)
SupportedExtensions == {"png", "jpg", "pdf"}
Position(order, x) == CHOOSE k \in 1..Len(order) : order[k] = x

(* the place of a file when sorted by file name, files of the same name by  *)
(* their directory                                                          *)
NameKey(f) ==
    Position(<<"a", "b">>, f.stem) * 100
    + Position(<<"jpg", "pdf", "png", "txt">>, f.ext) * 10
    + Position(<<"in", "in/sub">>, f.dir)

(* the supported files of a folder, sorted by file name *)
ReferenceEnumeration(S) ==
    CHOOSE s \in Orderings({f \in S : f.ext \in SupportedExtensions}) :
        \A i \in 1..Len(s), j \in 1..Len(s) : i < j => NameKey(s[i]) < NameKey(s[j])

(* C21: in Folder mode the list handed to the orchestrator is the reference *)
(* enumeration of the folder: exactly its files with a supported extension, *)
(* sorted by file name.                                                     *)
C21_ListingIsReferenceEnumeration ==
    listing # <<>> => listing = ReferenceEnumeration(folder)

(* ------------------------------- C22 ------------------------------------ *)
RECURSIVE C22_Total(_)
C22_Total(files) ==
    IF files = <<>> THEN 0
    ELSE LET f == Head(files)
         IN  (IF ~f.pdf THEN 1 ELSE IF f.loadable THEN f.pages ELSE 1)
             + C22_Total(Tail(files))

(* C22: in the pre-scan a PDF whose page count cannot be determined counts  *)
(* as 1 unit and a PDF whose page count is known counts as that many; the   *)
(* pre-scan goes on over the remaining files, the run is not aborted and no *)
(* batch-level error is reported.                                           *)
C22_UnknownPageCountIsOneUnit ==
    (files_to_process # <<>> /\ pc # "prescan") =>
        /\ pc \in {"zero", "processing", "done"}
        /\ total_tasks = C22_Total(files_to_process)
        /\ total_tasks > 0 => DOMAIN task = DOMAIN files_to_process
        /\ \A k \in DOMAIN sent : ~sent[k].error_message

C22_Witness ==
    /\ Finished
    /\ Len(files_to_process) = 2
    /\ files_to_process[1].pdf /\ ~files_to_process[1].loadable
    /\ files_to_process[2].pdf /\ files_to_process[2].loadable
    /\ files_to_process[2].pages = 1
    /\ total_tasks = 2
    /\ Last(sent).is_complete

(* ------------------------------- C23 ------------------------------------ *)
SnapshotsOf(i) == {k \in DOMAIN sent : sent[k].current_file[1] = i}
(* C23: every work unit, whether it succeeds or fails, is counted once in   *)
(* processed or in failed and is then followed by a progress snapshot that  *)
(* includes the increment: a file that is done has one snapshot per unit,   *)
(* and its n-th snapshot reports at least n counted units.                  *)
C23_EveryUnitCountedThenReported ==
    \A i \in Tasks :
        /\ task[i].pc = "done" =>
              Cardinality(SnapshotsOf(i)) = PreScanUnits(files_to_process[i])
        /\ \A k \in SnapshotsOf(i) :
              sent[k].processed + sent[k].failed
                  >= Cardinality({j \in SnapshotsOf(i) : j <= k})

(* ------------------------------- C24 ------------------------------------ *)
Held == {c \in Callers : call[c].buf # NoBuf}

JpegTried == {e.k[2] : e \in {x \in codec : x.k[1] = "jpeg"}}
WebpTried == {<<e.k[2], e.k[3]>> : e \in {x \in codec : x.k[1] = "webp"}}

(* C25: the quality search decays the quality by the factor 0.8 per retry   *)
(* down to the floor 10, and no retry encodes at a quality below 10.        *)
C25_NoRetryBelowTen ==
    /\ \A c \in Callers :
          (call[c].format = "Jpeg" /\ call[c].attempts >= 2) => call[c].quality >= 10
    /\ \A t \in WebpTried : t[2] >= 1 => t[1] * 4^t[2] >= 10 * 5^t[2]

(* C25, amended: a retry is made only after an attempt at a quality above   *)
(* 10, at 0.8 times that quality (truncated to an integer for JPEG); so the *)
(* quality of a retry is never below 8, and it can be below 10.             *)
C25_RetryFromAboveTen ==
    /\ \A q \in JpegTried :
          \/ \A p \in JpegTried : p <= q
          \/ /\ q >= 8
             /\ \E p \in JpegTried : p > 10 /\ 5 * q <= 4 * p /\ 4 * p < 5 * q + 5
    /\ \A t \in WebpTried :
          t[2] >= 1 =>
              /\ <<t[1], t[2] - 1>> \in WebpTried
              /\ t[1] * 4^(t[2] - 1) > 10 * 5^(t[2] - 1)
              /\ t[1] * 4^t[2] > 8 * 5^t[2]

C25_Witness ==
    /\ 9 \in JpegTried
    /\ 12 \in JpegTried
    /\ call[1].entry = "compress_and_save"
    /\ call[1].pc = "done"
    /\ call[1].quality = 9

(* ------------------------------- C26 ------------------------------------ *)
TierQuality(format, target_kb) ==
    IF target_kb < 50 THEN (IF format = "Jpeg" THEN 40 ELSE 50)
    ELSE IF target_kb < 200 THEN (IF format = "Jpeg" THEN 60 ELSE 75)
    ELSE (IF format = "Jpeg" THEN 80 ELSE 85)

(* C26: compress_and_save makes its first JPEG or WebP-lossy encode at the  *)
(* quality of the target's size tier: 40 and 50 for a target below 50 KB,   *)
(* 60 and 75 from 50 KB to below 200 KB, 80 and 85 for a larger target.     *)
C26_InitialQualityByTier ==
    \A c \in Callers :
        LET me == call[c]
            first == TierQuality(me.format, me.target \div 1024)
        IN  (/\ me.entry = "compress_and_save"
             /\ me.format \in {"Jpeg", "WebPLossy"}
             /\ me.attempts >= 1) =>
                IF me.format = "Jpeg"
                THEN first \in JpegTried /\ \A q \in JpegTried : q <= first
                ELSE \A t \in WebpTried : t[1] = first

(* ------------------------------- C27 ------------------------------------ *)
LosslessRuns == {e \in codec : e.k[1] = "webp_lossless"}

(* C27: encode_webp_smart returns the lossless encode exactly when          *)
(* (prefer_quality or width * height < 500000) and the lossless encode is   *)
(* at most 20% longer than the target; in every other case, the lossless    *)
(* encode not being run included, it returns the result of the lossy search. *)
C27_SmartChoosesLossless ==
    \A c \in Callers :
        SmartReturned(c) =>
            LET me == call[c]
                considered == me.prefer_quality \/ me.image.w * me.image.h < 500000
            IN  /\ me.ret.state = "ok"
                /\ Len(me.ret.data) = 1
                /\ considered <=> LosslessRuns # {}
                /\ me.ret.data[1].codec = "webp_lossless" <=>
                      /\ considered
                      /\ \E e \in LosslessRuns : 10 * e.v <= 12 * me.target
                /\ me.ret.data[1].codec # "webp_lossless" =>
                      /\ me.ret.data[1].codec = "webp"
                      /\ me.ret.data[1].q = me.quality
                      /\ me.ret.data[1].n = me.decays

C27_Witness ==
    \E c \in Callers :
        /\ SmartReturned(c)
        /\ call[c].prefer_quality
        /\ call[c].image.w * call[c].image.h >= 500000
        /\ call[c].ret.data[1].codec = "webp_lossless"
        /\ call[c].ret.data[1].len > call[c].target
        /\ call[c].attempts > 1

(* ------------------------------- C28 ------------------------------------ *)
(* the pixel count of call j is at most that of call k; between two calls   *)
(* whose products both pass 2^32 no order is asserted                       *)
FewerPixels(j, k) ==
    IF U32Overflows(est[k].w, est[k].h)
    THEN ~U32Overflows(est[j].w, est[j].h)
    ELSE /\ ~U32Overflows(est[j].w, est[j].h)
         /\ est[j].w * est[j].h <= est[k].w * est[k].h

(* C28: estimate_png_size(width, height) never fails, equals                *)
(* floor(0.7 * 3 * width * height) + 1024 and is non-decreasing in the      *)
(* pixel count width * height, for all u32 widths and heights. (A product   *)
(* of 2^32 or more makes the claimed value exceed every value the function  *)
(* can return, so the equality fails there.)                                *)
C28_EstimateExactAndMonotone ==
    /\ \A k \in DOMAIN est :
          /\ est[k].state = "ok"
          /\ ~U32Overflows(est[k].w, est[k].h)
          /\ est[k].size = (21 * (est[k].w * est[k].h)) \div 10 + 1024
    /\ \A j \in DOMAIN est, k \in DOMAIN est :
          FewerPixels(j, k) => est[j].size <= est[k].size

(* ------------------------------- C29 ------------------------------------ *)
Resized(c) == PngCompressedCall(c) /\ call[c].resized

(* C29: whenever turbo_encode_png_compressed resizes, neither output        *)
(* dimension exceeds the corresponding original dimension, sides below 32   *)
(* pixels included.                                                         *)
C29_ResizeOnlyShrinks ==
    \A c \in Callers :
        Resized(c) =>
            /\ call[c].dims.w <= call[c].image.w
            /\ call[c].dims.h <= call[c].image.h

(* C29, amended: a resized dimension is at least 32 and exceeds neither the *)
(* original dimension nor 32, whichever is larger: only a side below 32     *)
(* pixels grows, to exactly 32.                                             *)
C29_ResizeShrinksOrFloorsAt32 ==
    \A c \in Callers :
        Resized(c) =>
            /\ call[c].dims.w >= 32
            /\ call[c].dims.h >= 32
            /\ call[c].dims.w <= (IF call[c].image.w > 32 THEN call[c].image.w ELSE 32)
            /\ call[c].dims.h <= (IF call[c].image.h > 32 THEN call[c].image.h ELSE 32)

C29_Witness ==
    \E c \in Callers :
        /\ Resized(c)
        /\ call[c].pc = "done"
        /\ call[c].image = [w |-> 8, h |-> 40]
        /\ call[c].dims = [w |-> 32, h |-> 32]
        /\ call[c].ret.state = "ok"

(* ------------------------------- C30 ------------------------------------ *)
PooledAddresses == {pool[i].id[2] : i \in 1..Len(pool)}
HeldAddresses == {call[c].buf.id[2] : c \in Held}

(* C30: however the workers' get_buffer and return_buffer calls interleave, *)
(* the pool never retains more than 4 buffers; a buffer handed out is       *)
(* empty, so that a worker's buffer holds the one encode the worker wrote   *)
(* into it; and no buffer is held by two workers or by a worker and the     *)
(* pool at the same time.                                                   *)
C30_PoolBoundedEmptyExclusive ==
    /\ Len(pool) <= 4
    /\ \A c \in Held :
          /\ Len(call[c].buf.data) = 1
          /\ call[c].buf.data[1].q = call[c].quality
          /\ call[c].ret.state = "ok" => call[c].ret.data = call[c].buf.data
    /\ Cardinality(HeldAddresses) = Cardinality(Held)
    /\ Cardinality(PooledAddresses) = Len(pool)
    /\ HeldAddresses \cap PooledAddresses = {}

C30_Witness ==
    /\ Len(pool) = 4
    /\ \E i \in 1..4 : pool[i].id[1] = 1 /\ pool[i].cap = 2 * 1024 * 1024
    /\ call[1].buf = NoBuf
    /\ call[1].attempts = 1
    /\ call[2].pc = "jpeg_retry"
    /\ call[2].buf.id[1] = 2
    /\ call[2].buf.cap = 2 * 1024 * 1024

=============================================================================
